---- MODULE Spec2Model ----
(***************************************************************************)
(* R2BucketUploadNode.upload_to_r2 (src/R2BucketUploadNode.py) as a state  *)
(* machine.  One invocation walks through the statements of the method in  *)
(* program order; every call that touches the local disk, the bucket or    *)
(* the webhook is one step, and may fail where the library call can raise. *)
(* Several invocations share the working directory (fs) and the process    *)
(* environment (env).                                                      *)
(*                                                                         *)
(* Text is modelled by TLA+ strings and f-strings by \o.  A value that may *)
(* be None (os.getenv, the result of upload_file_to_r2) is a sequence of   *)
(* length 0 (None) or 1 (the string).                                      *)
(***************************************************************************)
EXTENDS Integers, Sequences, FiniteSets, TLC

VARIABLES
    env,      \* os.environ: variable name -> None or its value
    fs,       \* the working directory: path -> file content
    pc,       \* per invocation: the statement it is about to execute
    args,     \* per invocation: the arguments of upload_to_r2
    loc,      \* per invocation: the local variables of upload_to_r2
    exc,      \* per invocation: the exception in flight ("" when none)
    ret,      \* per invocation: the value of the return statement (<<>> before it)
    netlog,   \* per invocation: the network calls attempted, in order
    errlog,   \* per invocation: the logger.error lines written
    created   \* per invocation: the local paths it has written to

vars == <<env, fs, pc, args, loc, exc, ret, netlog, errlog, created>>

-----------------------------------------------------------------------------
(* Bounds of the model *)

MaxSide == 32          \* largest height/width tried
MaxChannels == 4       \* largest channel count tried
MaxNDims == 4          \* largest number of array dimensions tried
NumImages == 2         \* distinct pixel contents
NumInvocations == 2    \* invocations that may interleave (SpecConc)

(* Program constants *)
MinSize == 32          \* line 70: minimum height and width

-----------------------------------------------------------------------------
(* Optional values *)

None == <<>>
Some(s) == <<s>>
Truthy(v) == v # None /\ v[1] # ""        \* Python truth of None / str

-----------------------------------------------------------------------------
(* Inputs *)

AllProcs == 1..NumInvocations

\* The five parameters lines 74-78 resolve and line 81 requires.
RequiredFields ==
    {"r2_access_key_id", "r2_secret_access_key", "r2_endpoint",
     "r2_bucket_name", "r2_domain"}

\* All storage parameters of the signature (lines 58-60).
StorageFields == RequiredFields \cup {"r2_upload_path"}

EnvVar(f) ==
    CASE f = "r2_access_key_id"     -> "R2_ACCESS_KEY_ID"
      [] f = "r2_secret_access_key" -> "R2_SECRET_ACCESS_KEY"
      [] f = "r2_endpoint"          -> "R2_ENDPOINT"
      [] f = "r2_bucket_name"       -> "R2_BUCKET_NAME"
      [] f = "r2_domain"            -> "R2_DOMAIN"
      [] f = "r2_upload_path"       -> "R2_UPLOAD_PATH"
      [] f = "slack_webhook_url"    -> "SLACK_WEBHOOK_URL"

EnvNames == {EnvVar(f) : f \in StorageFields \cup {"slack_webhook_url"}}

\* Environments tried: everything set, exactly one storage variable unset,
\* nothing set, everything set to the empty string.
EnvChoices ==
    LET full == [n \in EnvNames |-> Some("env:" \o n)]
    IN  {full, [n \in EnvNames |-> None], [n \in EnvNames |-> Some("")]}
        \cup {[full EXCEPT ![EnvVar(f)] = None] : f \in StorageFields}

Getenv(e, name) == e[name]                          \* os.getenv(name)
GetenvDefault(e, name, dflt) ==                      \* os.getenv(name, dflt)
    IF e[name] = None THEN dflt ELSE e[name][1]

\* INPUT_TYPES: the default the host shows for each string widget.
InputDefault(e, f) ==
    IF f = "r2_upload_path"
    THEN GetenvDefault(e, EnvVar(f), "assets")
    ELSE GetenvDefault(e, EnvVar(f), "")

PixelNames == <<"imgA", "imgB", "imgC", "imgD">>
Pixels == {PixelNames[i] : i \in 1..NumImages}

Sides == (MinSize - 1)..MaxSide
DimChoices(i) ==
    IF i = 1 THEN Sides \cup {3}
    ELSE IF i = 2 THEN Sides
    ELSE IF i = 3 THEN (1..MaxChannels) \cup {MinSize}
    ELSE {3}
AllDims == UNION {DimChoices(i) : i \in 1..4}
Shapes ==
    UNION {{s \in [1..n -> AllDims] : \A i \in 1..n : s[i] \in DimChoices(i)}
           : n \in 1..MaxNDims}

\* The image argument: anything that is not a dict holding "image", or such
\* a dict, whose array has a shape and pixel data.
Images ==
    {[isDict |-> FALSE, hasKey |-> FALSE, shape |-> <<>>, pixels |-> ""],
     [isDict |-> TRUE,  hasKey |-> FALSE, shape |-> <<>>, pixels |-> ""]}
    \cup {[isDict |-> TRUE, hasKey |-> TRUE, shape |-> s, pixels |-> x]
          : s \in Shapes, x \in Pixels}

GivenValue(f) == "in:" \o f

\* Storage arguments tried: all given, exactly one empty, all empty.
StorageChoices ==
    LET given == [f \in StorageFields |-> GivenValue(f)]
    IN  {given, [f \in StorageFields |-> ""]}
        \cup {[given EXCEPT ![f] = ""] : f \in StorageFields}

WebhookChoices == {"", "https://hooks.example/T1"}

MakeArgs(image, prompt, webhook, st) ==
    [image                |-> image,
     prompt               |-> prompt,
     negative_prompt      |-> "",
     model                |-> "sdxl",
     slack_webhook_url    |-> webhook,
     r2_access_key_id     |-> st["r2_access_key_id"],
     r2_secret_access_key |-> st["r2_secret_access_key"],
     r2_upload_path       |-> st["r2_upload_path"],
     r2_endpoint          |-> st["r2_endpoint"],
     r2_bucket_name       |-> st["r2_bucket_name"],
     r2_domain            |-> st["r2_domain"]]

NoArgs == MakeArgs(CHOOSE i \in Images : ~i.isDict, "", "",
                   [f \in StorageFields |-> ""])

-----------------------------------------------------------------------------
(* Pure parts of the code *)

\* Mutant: the size test written with <= instead of <.
ValidateImage_OffByOne(image) ==
    IF ~image.isDict \/ ~image.hasKey
    THEN "Invalid image input format"
    ELSE IF Len(image.shape) # 3 \/ image.shape[3] \notin {3, 4}
    THEN "Image must be RGB or RGBA"
    ELSE IF image.shape[1] <= MinSize \/ image.shape[2] <= MinSize
    THEN "Image dimensions too small (minimum 32x32)"
    ELSE ""

\* Lines 63-71: "" when the image passes, otherwise the ValueError raised.
ValidateImage(image) ==
    IF ~image.isDict \/ ~image.hasKey
    THEN "Invalid image input format"
    ELSE IF Len(image.shape) # 3 \/ image.shape[3] \notin {3, 4}
    THEN "Image must be RGB or RGBA"
    ELSE IF image.shape[1] < MinSize \/ image.shape[2] < MinSize
    THEN "Image dimensions too small (minimum 32x32)"
    ELSE ""

\* Mutant: the bucket name falls back to the variable of the endpoint.
ResolveCredentials_WrongVariable(a, e) ==
    [f \in RequiredFields |->
        IF a[f] # "" THEN Some(a[f])
        ELSE IF f = "r2_bucket_name" THEN Getenv(e, "R2_ENDPOINT")
        ELSE Getenv(e, EnvVar(f))]

\* Lines 74-78: `x = x or os.getenv(NAME)` for five parameters.
ResolveCredentials(a, e) ==
    [f \in RequiredFields |->
        IF a[f] # "" THEN Some(a[f]) ELSE Getenv(e, EnvVar(f))]

\* Mutant: the bucket name left out of the list that is tested.
CredentialsComplete_SkipsBucket(r) ==
    \A f \in RequiredFields \ {"r2_bucket_name"} : Truthy(r[f])

\* Line 81: all([...]) over the five resolved values.
CredentialsComplete(r) == \A f \in RequiredFields : Truthy(r[f])

TempImagePath == "temp_image.png"                        \* line 85
Png(pixels) == "PNG[" \o pixels \o "]"                   \* PIL save, lossless
PartialPng(pixels) == "PNG[" \o pixels                   \* a save cut short
Sha256Hex(content) == "sha256(" \o content \o ")"        \* lines 207-213
OutputJsonPath(file_hash) == file_hash \o ".json"        \* line 110
JsonName(file_hash) == file_hash \o ".json"              \* line 123
PngName(file_hash) == file_hash \o ".png"                \* line 142
JsonDump(a) ==                                           \* lines 103-113
    "{prompt:" \o a.prompt \o ",negative_prompt:" \o a.negative_prompt
        \o ",model:" \o a.model \o "}"
PartialJson == "{"                                       \* a dump cut short

UploadPath(r2_upload_path, file_name) ==                 \* line 198
    r2_upload_path \o "/" \o file_name
PublicUrl(r2_domain, upload_path) ==                     \* line 200
    "https://" \o r2_domain \o "/" \o upload_path

\* The local disk.
NoFiles == [x \in {} |-> ""]
Exists(fsys, path) == path \in DOMAIN fsys               \* os.path.exists
WriteFile(fsys, path, content) ==
    [x \in DOMAIN fsys \cup {path} |-> IF x = path THEN content ELSE fsys[x]]
\* Mutant: a removal that removes nothing.
RemoveFile_KeepsFile(fsys, path) == fsys
RemoveFile(fsys, path) ==                                \* os.remove
    [x \in DOMAIN fsys \ {path} |-> fsys[x]]

\* upload_file_to_r2 (lines 189-205).  outcome: "ok", "client_raises"
\* (R2Client(...) raises, nothing is sent) or "upload_raises" (r2.upload_file
\* raises).  A local file that is missing makes r2.upload_file raise.
\* Result: the r2.upload_file call made (<<>> if none), the line logged as an
\* error (line 204) and the value returned.
UploadOutcomes == {"ok", "client_raises", "upload_raises"}
UploadFileToR2(fsys, file_path, file_name, r, r2_upload_path, outcome) ==
    LET upload_path == UploadPath(r2_upload_path, file_name)
        sent == outcome = "ok" /\ Exists(fsys, file_path)
        call == [op         |-> "upload_file",
                 access_key |-> r["r2_access_key_id"],
                 secret_key |-> r["r2_secret_access_key"],
                 endpoint   |-> r["r2_endpoint"],
                 bucket     |-> r["r2_bucket_name"],
                 file_path  |-> file_path,
                 key        |-> upload_path,
                 content    |-> IF sent THEN fsys[file_path] ELSE "",
                 ok         |-> sent]
    IN  [calls  |-> IF outcome = "client_raises" THEN <<>> ELSE <<call>>,
         logged |-> IF sent THEN <<>> ELSE <<"Failed to upload file to R2">>,
         url    |-> IF sent THEN Some(PublicUrl(r["r2_domain"][1], upload_path))
                    ELSE None]

\* Mutant: the test of the returned URL left out.
UploadFailed_Ignored(url) == FALSE

\* Lines 131 and 150: `if not url: raise Exception(...)`.
UploadFailed(url) == ~Truthy(url)

\* Mutant: the notification sent whether or not a webhook was given.
SlackRequested_Always(webhook) == TRUE

\* Line 158: `if slack_webhook_url:`.
SlackRequested(webhook) == webhook # ""

\* format_slack_message (lines 218-258): the fields that vary.
FormatSlackMessage(image_url, prompt_url, a) ==
    [image_url  |-> image_url,
     prompt_url |-> prompt_url,
     text       |-> "Model: " \o a.model \o " Prompt: " \o a.prompt
                    \o " Negative Prompt: " \o a.negative_prompt]

\* Mutant: no `except Exception` around the notification (lines 169-171).
SlackStep_Propagates(webhook, payload, outcome) ==
    LET post == [op |-> "post", url |-> webhook, payload |-> payload,
                 ok |-> outcome = "ok"]
    IN  [calls  |-> IF outcome = "format_exception" THEN <<>> ELSE <<post>>,
         logged |-> IF outcome = "ok" THEN <<>>
                    ELSE <<"Failed to send Slack message">>,
         raised |-> IF outcome \in {"other_exception", "format_exception"}
                    THEN "requests.post failed" ELSE ""]

\* Lines 159-171 with send_slack_message (lines 260-268).  outcome:
\*   "ok"                 the POST returned a success status
\*   "http_error"         raise_for_status raised (a RequestException)
\*   "request_exception"  requests.post raised a RequestException
\*   "other_exception"    requests.post raised some other Exception
\*   "format_exception"   building the payload raised; nothing is posted
\* Result: the POST made (<<>> if none), the lines logged as errors, and the
\* exception that leaves the try statement of line 159 ("" when none).
SlackOutcomes ==
    {"ok", "http_error", "request_exception", "other_exception",
     "format_exception"}
SlackStep(webhook, payload, outcome) ==
    LET post == [op |-> "post", url |-> webhook, payload |-> payload,
                 ok |-> outcome = "ok"]
    IN  [calls  |-> IF outcome = "format_exception" THEN <<>> ELSE <<post>>,
         logged |-> IF outcome = "ok" THEN <<>>
                    ELSE <<"Failed to send Slack message">>,
         raised |-> ""]

\* Mutant: the two URLs returned in the other order.
ReturnValue_Swapped(img_url, prompt_url) == <<prompt_url, img_url>>

\* Line 173: `return (img_url, prompt_url)`.
ReturnValue(img_url, prompt_url) == <<img_url, prompt_url>>

\* Mutant: the cleanup without its own try/except, so that its exception
\* replaces whatever the call was about to raise or return.
CleanupHandler_Propagates(e, r, err) ==
    [exc |-> err, ret |-> <<>>,
     logged |-> "Failed to clean up temporary files: " \o err]

\* Lines 186-187: an exception inside the cleanup is logged; the exception
\* in flight and the value being returned are left as they were.
CleanupHandler(e, r, err) ==
    [exc |-> e, ret |-> r,
     logged |-> "Failed to clean up temporary files: " \o err]

-----------------------------------------------------------------------------
(* State *)

NoLocals ==
    [r2               |-> [f \in RequiredFields |-> None],
     bound            |-> {},       \* the locals assigned so far
     temp_image_path  |-> "",
     file_hash        |-> "",
     output_json_path |-> "",
     prompt_url       |-> None,
     img_url          |-> None]

InitCommon ==
    /\ fs = NoFiles
    /\ pc = [p \in AllProcs |-> "idle"]
    /\ args = [p \in AllProcs |-> NoArgs]
    /\ loc = [p \in AllProcs |-> NoLocals]
    /\ exc = [p \in AllProcs |-> ""]
    /\ ret = [p \in AllProcs |-> <<>>]
    /\ netlog = [p \in AllProcs |-> <<>>]
    /\ errlog = [p \in AllProcs |-> <<>>]
    /\ created = [p \in AllProcs |-> {}]

Init == env \in EnvChoices /\ InitCommon

\* An exception raised inside the outer try (line 61): the handler of the
\* failing statement logs `inner` (if it has one), the handler of lines
\* 175-177 logs and re-raises, and control passes to the finally block.
Raise(p, inner, msg) ==
    /\ exc' = [exc EXCEPT ![p] = msg]
    /\ errlog' = [errlog EXCEPT ![p] = @ \o inner \o <<"Error in upload_to_r2: " \o msg>>]
    /\ pc' = [pc EXCEPT ![p] = "finally"]

\* The host calls upload_to_r2(a).
Enter(p, a) ==
    /\ pc[p] = "idle"
    /\ args' = [args EXCEPT ![p] = a]
    /\ loc' = [loc EXCEPT ![p].r2 = [f \in RequiredFields |-> Some(a[f])]]
    /\ pc' = [pc EXCEPT ![p] = "validate"]
    /\ UNCHANGED <<env, fs, exc, ret, netlog, errlog, created>>

\* One invocation with any of the arguments tried, or with the defaults
\* INPUT_TYPES gives the widgets.
Invoke(p) ==
    /\ pc[p] = "idle"
    /\ \E image \in Images :
        \/ \E st \in StorageChoices, webhook \in WebhookChoices :
              Enter(p, MakeArgs(image, "a cat", webhook, st))
        \/ Enter(p, MakeArgs(image, "a cat",
                             InputDefault(env, "slack_webhook_url"),
                             [f \in StorageFields |-> InputDefault(env, f)]))

\* Lines 62-71.
Validate(p) ==
    /\ pc[p] = "validate"
    /\ LET msg == ValidateImage(args[p].image)
       IN  IF msg # ""
           THEN Raise(p, <<>>, msg)
           ELSE /\ pc' = [pc EXCEPT ![p] = "credentials"]
                /\ UNCHANGED <<exc, errlog>>
    /\ UNCHANGED <<env, fs, args, loc, ret, netlog, created>>

\* Lines 73-82.
Credentials(p) ==
    /\ pc[p] = "credentials"
    /\ LET r == ResolveCredentials(args[p], env)
       IN  /\ loc' = [loc EXCEPT ![p].r2 = r]
           /\ IF ~CredentialsComplete(r)
              THEN Raise(p, <<>>,
                     "Missing required R2 credentials in inputs or environment variables")
              ELSE /\ pc' = [pc EXCEPT ![p] = "save_image"]
                   /\ UNCHANGED <<exc, errlog>>
    /\ UNCHANGED <<env, fs, args, ret, netlog, created>>

\* Lines 84-92.  Image.fromarray may raise before anything is written, and
\* save may raise after the file was created.
SaveImage(p) ==
    /\ pc[p] = "save_image"
    /\ loc' = [loc EXCEPT ![p].temp_image_path = TempImagePath,
                          ![p].bound = @ \cup {"temp_image_path"}]
    /\ \/ /\ fs' = WriteFile(fs, TempImagePath, Png(args[p].image.pixels))
          /\ created' = [created EXCEPT ![p] = @ \cup {TempImagePath}]
          /\ pc' = [pc EXCEPT ![p] = "hash"]
          /\ UNCHANGED <<exc, errlog>>
       \/ /\ Raise(p, <<"Failed to save temporary image">>, "fromarray failed")
          /\ UNCHANGED <<fs, created>>
       \/ /\ fs' = WriteFile(fs, TempImagePath, PartialPng(args[p].image.pixels))
          /\ created' = [created EXCEPT ![p] = @ \cup {TempImagePath}]
          /\ Raise(p, <<"Failed to save temporary image">>, "save failed")
    /\ UNCHANGED <<env, args, ret, netlog>>

\* Lines 94-100 with generate_sha256_file (lines 207-216): open raises when
\* the file is gone, and reading may fail.
HashImage(p) ==
    /\ pc[p] = "hash"
    /\ \/ /\ Exists(fs, loc[p].temp_image_path)
          /\ loc' = [loc EXCEPT ![p].file_hash = Sha256Hex(fs[loc[p].temp_image_path]),
                                ![p].bound = @ \cup {"file_hash"}]
          /\ pc' = [pc EXCEPT ![p] = "write_json"]
          /\ UNCHANGED <<exc, errlog>>
       \/ /\ Raise(p, <<"Failed to generate SHA256 hash", "Failed to generate file hash">>,
                   "cannot read temp_image.png")
          /\ UNCHANGED loc
    /\ UNCHANGED <<env, fs, args, ret, netlog, created>>

\* Lines 102-117.  open may raise before the file exists, and json.dump may
\* raise after it was created.
WriteJson(p) ==
    /\ pc[p] = "write_json"
    /\ LET path == OutputJsonPath(loc[p].file_hash)
       IN  /\ loc' = [loc EXCEPT ![p].output_json_path = path,
                                 ![p].bound = @ \cup {"output_json_path"}]
           /\ \/ /\ fs' = WriteFile(fs, path, JsonDump(args[p]))
                 /\ created' = [created EXCEPT ![p] = @ \cup {path}]
                 /\ pc' = [pc EXCEPT ![p] = "upload_json"]
                 /\ UNCHANGED <<exc, errlog>>
              \/ /\ Raise(p, <<"Failed to save metadata JSON">>, "open failed")
                 /\ UNCHANGED <<fs, created>>
              \/ /\ fs' = WriteFile(fs, path, PartialJson)
                 /\ created' = [created EXCEPT ![p] = @ \cup {path}]
                 /\ Raise(p, <<"Failed to save metadata JSON">>, "json.dump failed")
    /\ UNCHANGED <<env, args, ret, netlog>>

\* Lines 119-136.
UploadJson(p) ==
    /\ pc[p] = "upload_json"
    /\ \E outcome \in UploadOutcomes :
         LET res == UploadFileToR2(fs, loc[p].output_json_path,
                                   JsonName(loc[p].file_hash), loc[p].r2,
                                   args[p].r2_upload_path, outcome)
         IN  /\ netlog' = [netlog EXCEPT ![p] = @ \o res.calls]
             /\ loc' = [loc EXCEPT ![p].prompt_url = res.url,
                                   ![p].bound = @ \cup {"prompt_url"}]
             /\ IF UploadFailed(res.url)
                THEN Raise(p, res.logged \o <<"Failed to upload JSON to R2">>,
                           "Failed to get prompt URL from R2")
                ELSE /\ pc' = [pc EXCEPT ![p] = "upload_image"]
                     /\ errlog' = [errlog EXCEPT ![p] = @ \o res.logged]
                     /\ UNCHANGED exc
    /\ UNCHANGED <<env, fs, args, ret, created>>

\* Lines 138-155.
UploadImage(p) ==
    /\ pc[p] = "upload_image"
    /\ \E outcome \in UploadOutcomes :
         LET res == UploadFileToR2(fs, loc[p].temp_image_path,
                                   PngName(loc[p].file_hash), loc[p].r2,
                                   args[p].r2_upload_path, outcome)
         IN  /\ netlog' = [netlog EXCEPT ![p] = @ \o res.calls]
             /\ loc' = [loc EXCEPT ![p].img_url = res.url,
                                   ![p].bound = @ \cup {"img_url"}]
             /\ IF UploadFailed(res.url)
                THEN Raise(p, res.logged \o <<"Failed to upload image to R2">>,
                           "Failed to get image URL from R2")
                ELSE /\ pc' = [pc EXCEPT ![p] = "notify"]
                     /\ errlog' = [errlog EXCEPT ![p] = @ \o res.logged]
                     /\ UNCHANGED exc
    /\ UNCHANGED <<env, fs, args, ret, created>>

\* Lines 157-173: the optional notification, then the return statement.
Notify(p) ==
    /\ pc[p] = "notify"
    /\ IF SlackRequested(args[p].slack_webhook_url)
       THEN \E outcome \in SlackOutcomes :
              LET payload == FormatSlackMessage(loc[p].img_url, loc[p].prompt_url, args[p])
                  res == SlackStep(args[p].slack_webhook_url, payload, outcome)
              IN  /\ netlog' = [netlog EXCEPT ![p] = @ \o res.calls]
                  /\ IF res.raised # ""
                     THEN /\ Raise(p, res.logged, res.raised)
                          /\ UNCHANGED ret
                     ELSE /\ errlog' = [errlog EXCEPT ![p] = @ \o res.logged]
                          /\ ret' = [ret EXCEPT ![p] = ReturnValue(loc[p].img_url, loc[p].prompt_url)]
                          /\ pc' = [pc EXCEPT ![p] = "finally"]
                          /\ UNCHANGED exc
       ELSE /\ ret' = [ret EXCEPT ![p] = ReturnValue(loc[p].img_url, loc[p].prompt_url)]
            /\ pc' = [pc EXCEPT ![p] = "finally"]
            /\ UNCHANGED <<exc, errlog, netlog>>
    /\ UNCHANGED <<env, fs, args, loc, created>>

\* The cleanup raised `err`: lines 186-187, and the method is left.
CleanupFails(p, err) ==
    LET h == CleanupHandler(exc[p], ret[p], err)
    IN  /\ exc' = [exc EXCEPT ![p] = h.exc]
        /\ ret' = [ret EXCEPT ![p] = h.ret]
        /\ errlog' = [errlog EXCEPT ![p] = Append(@, h.logged)]
        /\ pc' = [pc EXCEPT ![p] = "done"]

\* Lines 181-182.  Reading a local that was never assigned raises
\* UnboundLocalError; os.remove may raise.
CleanupImage(p) ==
    /\ pc[p] = "finally"
    /\ IF "temp_image_path" \notin loc[p].bound
       THEN CleanupFails(p, "temp_image_path referenced before assignment")
            /\ UNCHANGED fs
       ELSE IF Exists(fs, loc[p].temp_image_path)
       THEN \/ /\ fs' = RemoveFile(fs, loc[p].temp_image_path)
               /\ pc' = [pc EXCEPT ![p] = "remove_json"]
               /\ UNCHANGED <<exc, ret, errlog>>
            \/ CleanupFails(p, "os.remove failed") /\ UNCHANGED fs
       ELSE /\ pc' = [pc EXCEPT ![p] = "remove_json"]
            /\ UNCHANGED <<fs, exc, ret, errlog>>
    /\ UNCHANGED <<env, args, loc, netlog, created>>

\* Lines 183-185, after which the method returns or re-raises.
CleanupJson(p) ==
    /\ pc[p] = "remove_json"
    /\ IF "output_json_path" \notin loc[p].bound
       THEN CleanupFails(p, "output_json_path referenced before assignment")
            /\ UNCHANGED fs
       ELSE IF Exists(fs, loc[p].output_json_path)
       THEN \/ /\ fs' = RemoveFile(fs, loc[p].output_json_path)
               /\ pc' = [pc EXCEPT ![p] = "done"]
               /\ UNCHANGED <<exc, ret, errlog>>
            \/ CleanupFails(p, "os.remove failed") /\ UNCHANGED fs
       ELSE /\ pc' = [pc EXCEPT ![p] = "done"]
            /\ UNCHANGED <<fs, exc, ret, errlog>>
    /\ UNCHANGED <<env, args, loc, netlog, created>>

Step(p) ==
    \/ Validate(p)
    \/ Credentials(p)
    \/ SaveImage(p)
    \/ HashImage(p)
    \/ WriteJson(p)
    \/ UploadJson(p)
    \/ UploadImage(p)
    \/ Notify(p)
    \/ CleanupImage(p)
    \/ CleanupJson(p)

\* A single invocation.
Next == Invoke(1) \/ Step(1)

Spec == Init /\ [][Next]_vars

-----------------------------------------------------------------------------
(* Invocations whose steps interleave in one working directory *)

PromptNames == <<"a cat", "a dog", "a fox", "a hen">>

InitConc ==
    /\ env = [n \in EnvNames |-> Some("env:" \o n)]
    /\ InitCommon

\* Invocation p is called with a valid image, its own prompt and every
\* storage argument given.
InvokeConc(p) ==
    /\ pc[p] = "idle"
    /\ \E x \in Pixels, webhook \in WebhookChoices :
         Enter(p, MakeArgs([isDict |-> TRUE, hasKey |-> TRUE,
                            shape |-> <<MinSize, MinSize, 3>>, pixels |-> x],
                           PromptNames[p], webhook,
                           [f \in StorageFields |-> GivenValue(f)]))

NextConc == \E p \in AllProcs : InvokeConc(p) \/ Step(p)

SpecConc == InitConc /\ [][NextConc]_vars

-----------------------------------------------------------------------------
(* Vocabulary of the properties *)

Range(q) == {q[i] : i \in DOMAIN q}
Done(p) == pc[p] = "done"
ValidationErrors ==
    {"Invalid image input format", "Image must be RGB or RGBA",
     "Image dimensions too small (minimum 32x32)"}
MissingCredentials ==
    "Missing required R2 credentials in inputs or environment variables"
FatalErrors ==
    ValidationErrors \cup
    {MissingCredentials, "fromarray failed", "save failed",
     "cannot read temp_image.png", "open failed", "json.dump failed",
     "Failed to get prompt URL from R2", "Failed to get image URL from R2",
     "requests.post failed"}

\* What the parameter f should be after the fallback: the argument when it
\* is not empty, otherwise the environment variable of its name.
Resolved(p, f) ==
    IF args[p][f] # "" THEN Some(args[p][f]) ELSE env[EnvVar(f)]
PastCredentials(p) ==
    /\ pc[p] \notin {"idle", "validate", "credentials"}
    /\ exc[p] \notin ValidationErrors
RemovalFailed(p) ==
    "Failed to clean up temporary files: os.remove failed" \in Range(errlog[p])
CleanupErrorLogged(p) ==
    \E m \in {"os.remove failed",
              "temp_image_path referenced before assignment",
              "output_json_path referenced before assignment"} :
        ("Failed to clean up temporary files: " \o m) \in Range(errlog[p])
TransferFailed(p) == "Failed to upload file to R2" \in Range(errlog[p])
SlackFailed(p) == "Failed to send Slack message" \in Range(errlog[p])
OwnHash(p) == "sha256(PNG[" \o args[p].image.pixels \o "])"

-----------------------------------------------------------------------------
(* Properties *)

C2_NoNetworkWithoutCredentials ==
    \A p \in AllProcs :
        /\ pc[p] # "idle"
        /\ \E f \in RequiredFields : ~Truthy(Resolved(p, f))
        => /\ netlog[p] = <<>>
           /\ Done(p) => exc[p] # "" /\ ret[p] = <<>>

\* C2 witness: a valid image, the bucket name missing from both the
\* arguments and the environment, and the invocation has failed.
C2_Witness ==
    \E p \in AllProcs :
        /\ Done(p) /\ exc[p] = MissingCredentials
        /\ args[p].r2_bucket_name = "" /\ env["R2_BUCKET_NAME"] = None
        /\ args[p].slack_webhook_url # ""

\* C3: after two successful uploads and with a webhook given, a failed
\* notification does not fail the call: it returns (img_url, prompt_url),
\* the URLs of the two uploads.
C3_NotificationNeverFatal ==
    \A p \in AllProcs :
        /\ Done(p)
        /\ Len(netlog[p]) >= 2 /\ netlog[p][1].ok /\ netlog[p][2].ok
        /\ args[p].slack_webhook_url # ""
        => /\ exc[p] = ""
           /\ ret[p] = <<Some("https://" \o Resolved(p, "r2_domain")[1] \o "/" \o netlog[p][2].key),
                         Some("https://" \o Resolved(p, "r2_domain")[1] \o "/" \o netlog[p][1].key)>>

\* C3 witness: both uploads succeeded, the POST was answered with an error,
\* and the call returned.
C3_Witness ==
    \E p \in AllProcs :
        /\ Done(p) /\ SlackFailed(p) /\ exc[p] = ""
        /\ Len(netlog[p]) = 3 /\ ~netlog[p][3].ok

\* C4: if a transfer failed, the call raises, returns nothing and posts
\* nothing to the webhook.
C4_UploadFailureIsFatal ==
    \A p \in AllProcs :
        Done(p) /\ TransferFailed(p)
        => /\ exc[p] \in {"Failed to get prompt URL from R2",
                          "Failed to get image URL from R2"}
           /\ ret[p] = <<>>
           /\ \A c \in Range(netlog[p]) : c.op # "post"

\* C4 witness: the metadata went up, the image transfer raised, a webhook
\* was given.
C4_Witness ==
    \E p \in AllProcs :
        /\ Done(p) /\ TransferFailed(p) /\ args[p].slack_webhook_url # ""
        /\ Len(netlog[p]) = 2 /\ netlog[p][1].ok /\ ~netlog[p][2].ok

\* C5: a successful call returns (image_url, metadata_url), with
\* image_url = https://{domain}/{prefix}/{hash}.png and
\* metadata_url = https://{domain}/{prefix}/{hash}.json, hash the SHA-256 of
\* the image file, and each URL is https://{domain}/ followed by the key its
\* file was uploaded under.
C5_ReturnedUrls ==
    \A p \in AllProcs :
        Done(p) /\ exc[p] = ""
        => LET base == "https://" \o Resolved(p, "r2_domain")[1] \o "/"
               stem == args[p].r2_upload_path \o "/" \o OwnHash(p)
               up == SelectSeq(netlog[p], LAMBDA c : c.op = "upload_file")
           IN  /\ ret[p] = <<Some(base \o stem \o ".png"), Some(base \o stem \o ".json")>>
               /\ Len(up) = 2
               /\ up[1].ok /\ up[1].file_path = OwnHash(p) \o ".json"
               /\ up[2].ok /\ up[2].file_path = "temp_image.png"
               /\ ret[p][1] = Some(base \o up[2].key)
               /\ ret[p][2] = Some(base \o up[1].key)

\* C5 witness: a call that returned, with the domain taken from the
\* environment.
C5_Witness ==
    \E p \in AllProcs :
        /\ Done(p) /\ exc[p] = "" /\ Len(ret[p]) = 2
        /\ args[p].r2_domain = "" /\ args[p].r2_upload_path # ""

\* C6: validation passes exactly when the array has three dimensions, 3 or 4
\* channels and height and width of at least 32; otherwise the call fails
\* with a validation error, having written no file and uploaded nothing.
C6_ValidationExact ==
    \A p \in AllProcs :
        pc[p] \notin {"idle", "validate"}
        => LET im == args[p].image
               good == /\ im.isDict /\ im.hasKey
                       /\ Len(im.shape) = 3
                       /\ im.shape[3] \in {3, 4}
                       /\ im.shape[1] >= 32 /\ im.shape[2] >= 32
           IN  IF good
               THEN exc[p] \notin ValidationErrors
               ELSE /\ exc[p] \in ValidationErrors
                    /\ created[p] = {} /\ fs = NoFiles
                    /\ netlog[p] = <<>>
                    /\ ret[p] = <<>>

\* C6 witness: a three-dimensional RGB array one pixel too narrow has been
\* rejected.
C6_Witness ==
    \E p \in AllProcs :
        /\ Done(p)
        /\ args[p].image.shape = <<32, 31, 3>>
        /\ exc[p] = "Image dimensions too small (minimum 32x32)"


\* What every r2.upload_file call of p must carry when the parameters in F
\* are taken from the argument or else the environment, and the rest as passed.
UsesResolved(p, F) ==
    LET val(f) == IF f \in F THEN Resolved(p, f) ELSE Some(args[p][f])
    IN  \A c \in Range(netlog[p]) :
            c.op = "upload_file"
            => /\ c.access_key = val("r2_access_key_id")
               /\ c.secret_key = val("r2_secret_access_key")
               /\ c.endpoint = val("r2_endpoint")
               /\ c.bucket = val("r2_bucket_name")
               /\ c.key \in {val("r2_upload_path")[1] \o "/" \o loc[p].file_hash \o x
                             : x \in {".json", ".png"}}
               /\ (c.ok /\ c.file_path = "temp_image.png" /\ "img_url" \in loc[p].bound
                   => loc[p].img_url = Some("https://" \o val("r2_domain")[1] \o "/" \o c.key))

\* C7 as stated: each of the six storage parameters is the argument when
\* that is not empty and otherwise its environment variable, and the call
\* fails with the missing-credentials error if any of the six is then empty.
C7_SixFieldsResolvedAndRequired ==
    \A p \in AllProcs :
        PastCredentials(p)
        => IF \E f \in StorageFields : ~Truthy(Resolved(p, f))
           THEN exc[p] = MissingCredentials
           ELSE exc[p] # MissingCredentials /\ UsesResolved(p, StorageFields)

\* C7 as amended: that holds of the five parameters access key, secret key,
\* endpoint, bucket and domain; r2_upload_path is used as passed, and the
\* call does not fail for an empty one.
C7_FiveFieldsResolvedAndRequired ==
    \A p \in AllProcs :
        PastCredentials(p)
        => IF \E f \in RequiredFields : ~Truthy(Resolved(p, f))
           THEN exc[p] = MissingCredentials
           ELSE exc[p] # MissingCredentials /\ UsesResolved(p, RequiredFields)

\* C7 witness: the bucket name came from the environment, the upload path
\* was passed empty, and both files were uploaded.
C7_Witness ==
    \E p \in AllProcs :
        /\ Done(p) /\ exc[p] = ""
        /\ args[p].r2_bucket_name = "" /\ args[p].r2_upload_path = ""
        /\ Len(netlog[p]) >= 2
        /\ netlog[p][2].bucket = Some("env:R2_BUCKET_NAME")

\* C8: two invocations with different image bytes do not share a temporary
\* file path, and each hashes and uploads its own image bytes.
C8_InvocationsIndependent ==
    \A p, q \in AllProcs :
        /\ p # q /\ pc[p] # "idle" /\ pc[q] # "idle"
        /\ args[p].image.pixels # args[q].image.pixels
        => /\ ("temp_image_path" \in loc[p].bound /\ "temp_image_path" \in loc[q].bound
               => loc[p].temp_image_path # loc[q].temp_image_path)
           /\ ("file_hash" \in loc[p].bound => loc[p].file_hash = OwnHash(p))
           /\ \A c \in Range(netlog[p]) :
                 c.op = "upload_file" /\ c.ok /\ c.file_path = loc[p].temp_image_path
                 => c.content = "PNG[" \o args[p].image.pixels \o "]"

\* C9: the network calls of one invocation are a prefix of
\* [upload <hash>.json, upload temp_image.png, POST to the webhook]; a later
\* call is made only after the earlier uploads succeeded, and the POST only
\* with a webhook given.
C9_NetworkSequence ==
    \A p \in AllProcs :
        LET n == netlog[p]
        IN  /\ Len(n) <= 3
            /\ Len(n) >= 1 => /\ n[1].op = "upload_file"
                              /\ n[1].file_path = loc[p].file_hash \o ".json"
            /\ Len(n) >= 2 => /\ n[1].ok
                              /\ n[2].op = "upload_file"
                              /\ n[2].file_path = "temp_image.png"
            /\ Len(n) >= 3 => /\ n[2].ok
                              /\ n[3].op = "post"
                              /\ args[p].slack_webhook_url # ""
                              /\ n[3].url = args[p].slack_webhook_url

\* C9 witness: all three calls were made.
C9_Witness ==
    \E p \in AllProcs : Done(p) /\ Len(netlog[p]) = 3 /\ netlog[p][3].ok

\* C10: an error inside the cleanup is logged and nothing more: a call that
\* failed raises the error it failed with (the one line 176 logged), and a
\* call that reached its return statement returns its two URLs.
C10_CleanupErrorOnlyLogged ==
    \A p \in AllProcs :
        Done(p) /\ CleanupErrorLogged(p)
        => LET failed == {m \in FatalErrors :
                             ("Error in upload_to_r2: " \o m) \in Range(errlog[p])}
           IN  IF failed # {}
               THEN exc[p] \in failed /\ ret[p] = <<>>
               ELSE /\ exc[p] = ""
                    /\ ret[p] = <<loc[p].img_url, loc[p].prompt_url>>
                    /\ Truthy(ret[p][1]) /\ Truthy(ret[p][2])

\* C10 witness: a call that failed on the credentials, whose cleanup then
\* read temp_image_path before it was ever assigned.
C10_Witness ==
    \E p \in AllProcs :
        /\ Done(p) /\ exc[p] = MissingCredentials
        /\ "Failed to clean up temporary files: temp_image_path referenced before assignment"
               \in Range(errlog[p])

====
